---- MODULE Spec2Model ----
(***************************************************************************)
(* Model of the build/revise service of TDS-Project-1:                     *)
(*   app/main.py          build_app, notify_evaluation_api_with_retry      *)
(*   app/github_utils.py  create_or_update_repo                            *)
(* The remote repository host (GitHub) is the environment: every remote    *)
(* request either takes its effect or fails without effect.                *)
(***************************************************************************)
EXTENDS Integers, Sequences, FiniteSets, TLC

\* ------------------------------------------------------------------ bounds
MaxFiles == 2
MaxRound == 2
NumCalls == 2
MaxFaultsTwice == 1
MaxFaults == 2

Calls == 1..NumCalls
Rounds == 1..MaxRound

\* ------------------------------------------------------- values and inputs
Absent == <<>>
NoRepo == <<>>
NoneUrl == <<"None">>
EmptyUrl == <<>>

IndexHtml == "index.html"
ReadmeMd == "README.md"
License == "LICENSE"
Paths == {IndexHtml, ReadmeMd, License}

\* the task identifier of the requests, as a sequence of name fragments
TaskName == <<"quiz">>

\* repositories the caller may already own
OldRepo == <<"quiz", "-", "t0">>
Quiz2Repo == <<"quiz", "2", "-", "t0">>
BlogRepo == <<"blog", "-", "t0">>
GoneRepo == <<"quiz", "-", "gone">>

\* strftime('%Y%m%d%H%M%S') of the clock readings the model distinguishes
Stamps == <<"t1", "t2">>

NewRepoName(task_name, now) == task_name \o <<"-", Stamps[now]>>

RepoNames == {OldRepo, Quiz2Repo, BlogRepo} \cup {NewRepoName(TaskName, n) : n \in DOMAIN Stamps}

StartsWith(name, prefix) ==
    /\ Len(prefix) <= Len(name)
    /\ SubSeq(name, 1, Len(prefix)) = prefix

RECURSIVE RStrip(_)
RStrip(s) ==
    IF s # <<>> /\ s[Len(s)] = "/" THEN RStrip(SubSeq(s, 1, Len(s) - 1)) ELSE s

RECURSIVE LastSegment(_)
LastSegment(s) ==
    IF s = <<>> THEN <<>>
    ELSE IF s[Len(s)] = "/" THEN <<>>
    ELSE Append(LastSegment(SubSeq(s, 1, Len(s) - 1)), s[Len(s)])

RepoNameOfUrl(repo_url) == LastSegment(RStrip(repo_url))

HtmlUrl(name) == <<"https:", "/", "/", "github.com", "/", "user", "/">> \o name
PagesUrl(name) == <<"https:", "/", "/", "user.github.io", "/">> \o name \o <<"/">>

RepoUrls == {NoneUrl, EmptyUrl, HtmlUrl(OldRepo) \o <<"/">>, HtmlUrl(GoneRepo)}

Truthy(v) == v \notin {NoneUrl, <<>>}

\* file contents
OldContent == <<"c0">>
GenContents == {<<"c1">>}
DefaultReadme(repo_name) == <<"# ">> \o repo_name \o <<"Auto-generated repository.">>
LicenseText == <<"MIT License">>
AutoInitReadme(repo_name) == <<"# ">> \o repo_name \o <<"Auto-generated project for evaluation">>

Sha(content) == <<"sha">> \o content

\* the generated file mappings: insertion-ordered, keys distinct
PathSeqs == UNION {[1..n -> Paths] : n \in 0..MaxFiles}
Injective(s) == \A i, j \in DOMAIN s : s[i] = s[j] => i = j
FileMaps ==
    {[i \in DOMAIN ps |-> <<ps[i], c>>] : ps \in {s \in PathSeqs : Injective(s)}, c \in GenContents}

Keys(fm) == {fm[i][1] : i \in DOMAIN fm}

\* remote file trees of the repositories that exist before the first request
EmptyTree == [p \in Paths |-> Absent]
InitTree(name, k) ==
    CASE k = 1 -> EmptyTree
      [] OTHER -> [p \in Paths |-> CASE p = IndexHtml -> OldContent
                                       [] p = ReadmeMd -> DefaultReadme(name)
                                       [] OTHER -> LicenseText]

\* the remote states before the first request: the repository list and the
\* kind of tree its repositories hold
InitRemotes ==
    { <<<<>>, 1>>, <<<<OldRepo>>, 1>>, <<<<OldRepo>>, 2>>,
      <<<<BlogRepo>>, 2>>, <<<<BlogRepo, OldRepo>>, 2>>,
      <<<<Quiz2Repo, OldRepo>>, 2>>, <<<<OldRepo, Quiz2Repo>>, 2>> }

NoCommit == <<>>
Unknown == <<"unknown">>

InSeq(x, s) == \E i \in DOMAIN s : s[i] = x

\* ------------------------------------------------------------------- state
VARIABLES
    envOk,      \* GITHUB_USER and GITHUB_TOKEN are both set
    now,        \* index into Stamps of the last clock reading, 0 before the first
    repos,      \* the caller's repositories, most recently updated first
    tree,       \* tree[name][path]: content of the file, or Absent
    head,       \* head[name]: the latest commit of the repository, or NoCommit
    call,       \* call[c]: position and locals of request c in build_app
    log,        \* history of the remote requests issued so far
    maxFaults,  \* <<n>>: one request meets at most n remote faults
    ntf         \* position and locals of a run of notify_evaluation_api_with_retry

vars == <<envOk, now, repos, tree, head, call, log, maxFaults, ntf>>
remote == <<repos, tree, head>>

IdleCall ==
    [pc |-> "idle", secret |-> <<>>, secret_ok |-> FALSE, files |-> <<>>, round |-> 0,
     repo_url |-> NoneUrl, url_given |-> FALSE, create_new |-> FALSE, repo_name |-> NoRepo,
     idx |-> 0, existing_sha |-> <<>>, fresh_sha |-> <<>>, commit_sha |-> <<>>, ret |-> <<>>,
     status |-> "none", detail |-> "none", resp |-> <<>>, faults |-> 0]

\* the notifier before it is called
IdleNotifier ==
    [pc |-> "idle", evaluation_url |-> <<>>, max_retries |-> 0, attempt |-> 0,
     got |-> <<>>, slept |-> <<>>, result |-> FALSE]

InitRemote ==
    /\ envOk \in BOOLEAN
    /\ now = 0
    /\ \E r \in InitRemotes :
          LET k == r[2] IN
          /\ repos = r[1]
          /\ tree = [n \in RepoNames |-> IF InSeq(n, repos) THEN InitTree(n, k) ELSE EmptyTree]
          /\ head = [n \in RepoNames |->
                       IF InSeq(n, repos) /\ k # 1 THEN <<"old commit">> ELSE NoCommit]
    /\ call = [c \in Calls |-> IdleCall]
    /\ log = <<>>

Init == InitRemote /\ maxFaults = <<MaxFaults>> /\ ntf = IdleNotifier

\* --------------------------------------------------------------- utilities
Bit(b) == IF b THEN 1 ELSE 0

\* whether the next remote request of call c may fail for no reason of the model
FaultChoices(c) ==
    IF call[c].faults < maxFaults[1] THEN BOOLEAN ELSE {FALSE}

Entry(c, step, op, path, tok, ok) ==
    [call |-> c, step |-> step, op |-> op, path |-> path, tok |-> tok, ok |-> ok]

Logged(e) == log' = Append(log, e)

Goto(c, rec) == call' = [call EXCEPT ![c] = rec]

\* mutant: the exception is swallowed and build_app goes on with a partial result
RaisedSwallowed(rec, why) ==
    [rec EXCEPT !.pc = "notify", !.detail = why,
                !.ret = <<HtmlUrl(rec.repo_name), Unknown, PagesUrl(rec.repo_name)>>]

\* build_app's except clause: the error result of a raising create_or_update_repo
Raised(rec, why) ==
    [rec EXCEPT !.pc = "responded", !.status = "error", !.detail = why]

CurPath(rec) == rec.files[rec.idx][1]

\* mutant: the file name is written in place of the content
CurContentName(rec) == <<rec.files[rec.idx][1]>>

CurContent(rec) == rec.files[rec.idx][2]

\* mutants of the step order: the defaults before the user files, and the
\* revision read after both hosting requests
StepsScaffoldFirst ==
    <<"readme", "license", "files", "enable_pages", "get_commits", "pages_build", "return">>

StepsRevisionLast ==
    <<"files", "readme", "license", "enable_pages", "pages_build", "get_commits", "return">>

\* the steps of create_or_update_repo after the resolution, in source order
Steps == <<"files", "readme", "license", "enable_pages", "get_commits", "pages_build", "return">>

\* mutant: the defaults are ensured whether or not the files include them
AppliesAlways(step, rec) ==
    CASE step = "files" -> rec.files # <<>>
      [] step = "enable_pages" -> rec.create_new
      [] step = "pages_build" -> ~rec.create_new
      [] OTHER -> TRUE

\* mutant: the LICENSE step is never run
AppliesNoLicense(step, rec) ==
    CASE step = "files" -> rec.files # <<>>
      [] step = "readme" -> rec.files = <<>> \/ ReadmeMd \notin Keys(rec.files)
      [] step = "license" -> FALSE
      [] step = "enable_pages" -> rec.create_new
      [] step = "pages_build" -> ~rec.create_new
      [] OTHER -> TRUE

\* mutant: both hosting requests are made in either mode
AppliesHostingBoth(step, rec) ==
    CASE step = "files" -> rec.files # <<>>
      [] step = "readme" -> rec.files = <<>> \/ ReadmeMd \notin Keys(rec.files)
      [] step = "license" -> rec.files = <<>> \/ License \notin Keys(rec.files)
      [] OTHER -> TRUE

\* the condition under which a step is executed at all
Applies(step, rec) ==
    CASE step = "files" -> rec.files # <<>>
      [] step = "readme" -> rec.files = <<>> \/ ReadmeMd \notin Keys(rec.files)
      [] step = "license" -> rec.files = <<>> \/ License \notin Keys(rec.files)
      [] step = "enable_pages" -> rec.create_new
      [] step = "pages_build" -> ~rec.create_new
      [] OTHER -> TRUE

\* the tuple create_or_update_repo returns; build_app goes on to notify
Returned(rec) ==
    [rec EXCEPT !.pc = "notify",
                !.ret = <<HtmlUrl(rec.repo_name), rec.commit_sha, PagesUrl(rec.repo_name)>>]

\* the first remote request of a step
Enter(step, rec) ==
    CASE step = "files" -> [rec EXCEPT !.pc = "get_contents", !.idx = 1]
      [] step = "readme" -> [rec EXCEPT !.pc = "readme_get"]
      [] step = "license" -> [rec EXCEPT !.pc = "license_get"]
      [] step = "return" -> Returned(rec)
      [] OTHER -> [rec EXCEPT !.pc = step]

\* control falls through the steps that do not apply
RECURSIVE Advance(_, _, _)
Advance(order, k, rec) ==
    IF k > Len(order) THEN Returned(rec)
    ELSE IF Applies(order[k], rec) THEN Enter(order[k], rec)
    ELSE Advance(order, k + 1, rec)

\* where create_or_update_repo goes when a step is over
After(step, rec) ==
    Advance(Steps, (CHOOSE k \in DOMAIN Steps : Steps[k] = step) + 1, rec)

\* ... and when the repository has been created or resolved
Resolved(rec, name) == Advance(Steps, 1, [rec EXCEPT !.repo_name = name])

\* ... and when one user file is over
FileDone(rec) ==
    IF rec.idx < Len(rec.files) THEN [rec EXCEPT !.pc = "get_contents", !.idx = rec.idx + 1]
    ELSE After("files", rec)

\* mutants of the handler: the critical-file test is missing, or always met,
\* or the handler tries the force update again
FileFailedSkip(rec) == FileDone(rec)

FileFailedAlways(rec) == Raised(rec, "critical file")

FileFailedRetry(rec) == [rec EXCEPT !.pc = "refetch"]

\* the handler of a failed user file: index.html is fatal, others are skipped
FileFailed(rec) ==
    IF CurPath(rec) = IndexHtml THEN Raised(rec, "critical file")
    ELSE FileDone(rec)

\* mutant: the first repository listed is adopted, whatever its name
FirstMatchAny(user_repos, task_name) ==
    IF user_repos = <<>> THEN NoRepo ELSE Head(user_repos)

\* mutant: the scan does not stop at the first match
FirstMatchNoBreak(user_repos, task_name) ==
    LET M == {i \in DOMAIN user_repos : StartsWith(user_repos[i], task_name)} IN
    IF M = {} THEN NoRepo ELSE user_repos[CHOOSE i \in M : \A j \in M : j <= i]

\* the scan of get_repos(sort="updated", direction="desc") with its break
RECURSIVE FirstMatch(_, _)
FirstMatch(user_repos, task_name) ==
    IF user_repos = <<>> THEN NoRepo
    ELSE IF StartsWith(Head(user_repos), task_name) THEN Head(user_repos)
    ELSE FirstMatch(Tail(user_repos), task_name)

\* ------------------------------------------------------- build_app, part 1
\* the inputs of request c: the first request is arbitrary, a later one is a
\* revision that repeats the files of the one before it and names the
\* repository that one returned
FileMapsFor(c) == IF c = 1 THEN FileMaps ELSE {call[c - 1].files}
RepoUrlsFor(c) == IF c = 1 THEN RepoUrls ELSE {call[c - 1].ret[1]}
RoundsFor(c) == IF c = 1 THEN Rounds ELSE Rounds \ {1}

\* the configured secret, and the secrets a request may carry
StudentSecret == <<"s3cret">>
Secrets == {StudentSecret, <<"guess">>}

\* mutant: the secret is not compared
SecretRejectedNever(secret) == FALSE

\* `if data.secret != STUDENT_SECRET`
SecretRejected(secret) == secret # StudentSecret

\* the request arrives and its secret is compared with STUDENT_SECRET
Receive(c) ==
    /\ call[c].pc = "idle"
    /\ \E secret \in Secrets :
          LET rec == [call[c] EXCEPT !.secret = secret] IN
          Goto(c, IF SecretRejected(secret)
                  THEN [rec EXCEPT !.pc = "responded", !.status = "error",
                                   !.detail = "Invalid secret"]
                  ELSE [rec EXCEPT !.pc = "generate", !.secret_ok = TRUE])
    /\ UNCHANGED <<envOk, now, remote, log, maxFaults, ntf>>

\* mutant: an empty mapping is pushed like any other
GenerationFailedNever(files_to_push) == FALSE

\* `if not files_to_push`
GenerationFailed(files_to_push) == files_to_push = <<>>

\* generate_app_code returns a mapping, empty on failure
Generate(c) ==
    /\ call[c].pc = "generate"
    /\ \E fm \in FileMapsFor(c) :
          /\ Goto(c, IF GenerationFailed(fm)
                      THEN [call[c] EXCEPT !.pc = "responded", !.status = "error",
                                           !.detail = "Failed to generate"]
                      ELSE [call[c] EXCEPT !.pc = "sync", !.files = fm])
          /\ Logged(Entry(c, "generate", "generate", "", <<>>, fm # <<>>))
    /\ UNCHANGED <<envOk, now, remote, maxFaults, ntf>>

\* ------------------------------------- create_or_update_repo: resolution
CreateNewAnyRound(round) == round >= 1

\* create_new = data.round == 1
CreateNew(round) == round = 1

\* mutant: the repo_url is never consulted
RouteSearchOnly(create_new, repo_url) ==
    IF create_new THEN "create_repo" ELSE "get_repos_no_url"

\* the branch of the resolution that is taken
Route(create_new, repo_url) ==
    IF create_new THEN "create_repo"
    ELSE IF Truthy(repo_url) THEN "get_repo"
    ELSE "get_repos_no_url"

\* mutant: the credentials are not checked
CredentialsMissingNever(env_ok) == FALSE

\* `if not github_user or not github_token`
CredentialsMissing(env_ok) == ~env_ok

\* build_app derives create_new and the repo_url it passes down (data.repo_url
\* is read on a revision only; url_given remembers whether the request had
\* one); create_or_update_repo checks the credentials
SyncEnter(c) ==
    /\ call[c].pc = "sync"
    /\ \E round \in RoundsFor(c), url \in RepoUrlsFor(c) :
          LET create_new == CreateNew(round)
              existing_repo_url == IF create_new THEN NoneUrl ELSE url
              rec == [call[c] EXCEPT !.round = round, !.repo_url = existing_repo_url,
                                     !.url_given = Truthy(url), !.create_new = create_new]
          IN  Goto(c, IF CredentialsMissing(envOk) THEN Raised(rec, "credentials")
                      ELSE [rec EXCEPT !.pc = Route(create_new, existing_repo_url)])
    /\ UNCHANGED <<envOk, now, remote, log, maxFaults, ntf>>

CreateRepo(c) ==
    /\ call[c].pc = "create_repo"
    /\ \E fault \in FaultChoices(c), ts \in (IF now = 0 THEN 1 ELSE now)..Len(Stamps) :
          LET repo_name == NewRepoName(TaskName, ts)
              ok == ~fault /\ ~InSeq(repo_name, repos)
              rec == [call[c] EXCEPT !.faults = @ + Bit(fault /\ ~InSeq(repo_name, repos))]
          IN  /\ now' = ts
              /\ Logged(Entry(c, "resolve", "create_repo", "", <<>>, ok))
              /\ IF ok
                 THEN /\ repos' = <<repo_name>> \o repos
                      /\ tree' = [tree EXCEPT ![repo_name] =
                                     [EmptyTree EXCEPT ![ReadmeMd] = AutoInitReadme(repo_name)]]
                      /\ head' = [head EXCEPT ![repo_name] = <<"Initial commit">>]
                      /\ Goto(c, Resolved(rec, repo_name))
                 ELSE /\ UNCHANGED remote
                      /\ Goto(c, Raised(rec, "create_repo"))
    /\ UNCHANGED <<envOk, maxFaults, ntf>>

GetRepo(c) ==
    /\ call[c].pc = "get_repo"
    /\ \E fault \in FaultChoices(c) :
          LET repo_name == RepoNameOfUrl(call[c].repo_url)
              ok == ~fault /\ InSeq(repo_name, repos)
              rec == [call[c] EXCEPT !.faults = @ + Bit(fault /\ InSeq(repo_name, repos))]
          IN  /\ Logged(Entry(c, "resolve", "get_repo", "", <<>>, ok))
              /\ Goto(c, IF ok THEN Resolved(rec, repo_name)
                          ELSE [rec EXCEPT !.pc = "get_repos_fallback"])
    /\ UNCHANGED <<envOk, now, remote, maxFaults, ntf>>

\* the search by task name after the fetch by repo_url has failed
SearchFallback(c) ==
    /\ call[c].pc = "get_repos_fallback"
    /\ \E fault \in FaultChoices(c) :
          LET matching_repo == FirstMatch(repos, TaskName)
              ok == ~fault /\ matching_repo # NoRepo
              rec == [call[c] EXCEPT !.faults = @ + Bit(fault)]
          IN  /\ Logged(Entry(c, "resolve", "get_repos", "", <<>>, ~fault))
              /\ Goto(c, IF ok THEN Resolved(rec, matching_repo)
                          ELSE Raised(rec, "Failed to find repo"))
    /\ UNCHANGED <<envOk, now, remote, maxFaults, ntf>>

\* the search by task name when no repo_url was given
SearchNoUrl(c) ==
    /\ call[c].pc = "get_repos_no_url"
    /\ \E fault \in FaultChoices(c) :
          LET matching_repo == FirstMatch(repos, TaskName)
              ok == ~fault /\ matching_repo # NoRepo
              rec == [call[c] EXCEPT !.faults = @ + Bit(fault)]
          IN  /\ Logged(Entry(c, "resolve", "get_repos", "", <<>>, ~fault))
              /\ Goto(c, IF ok THEN Resolved(rec, matching_repo)
                          ELSE Raised(rec, "Failed to find repo"))
    /\ UNCHANGED <<envOk, now, remote, maxFaults, ntf>>

\* ------------------------------- create_or_update_repo: the user files
Repo(c) == call[c].repo_name

\* the remote write of one file; content Absent deletes it
Commit(repo_name, path, content, message) ==
    /\ tree' = [tree EXCEPT ![repo_name][path] = content]
    /\ head' = [head EXCEPT ![repo_name] = <<message, path>>]
    /\ UNCHANGED repos

\* the inner try/except around repo.get_contents: file_exists
FileExistsNever(cur, fault) == FALSE

FileExists(cur, fault) == ~fault /\ cur # Absent

\* repo.get_contents(filename): a failure of any kind reads as "no such file"
GetContents(c) ==
    /\ call[c].pc = "get_contents"
    /\ \E fault \in FaultChoices(c) :
          LET path == CurPath(call[c])
              cur == tree[Repo(c)][path]
              file_exists == FileExists(cur, fault)
              rec == [call[c] EXCEPT !.faults = @ + Bit(fault /\ cur # Absent)]
          IN  /\ Logged(Entry(c, "files", "get_contents", path,
                               IF file_exists THEN Sha(cur) ELSE <<>>, file_exists))
              /\ Goto(c, IF file_exists
                          THEN [rec EXCEPT !.pc = "update_file", !.existing_sha = Sha(cur)]
                          ELSE [rec EXCEPT !.pc = "create_file"])
    /\ UNCHANGED <<envOk, now, remote, maxFaults, ntf>>

\* mutant: the force update is run even after an accepted update
AfterUpdateForce(rec, ok) == [rec EXCEPT !.pc = "refetch"]

\* mutant: a rejected update is tried again from the read
AfterUpdateAgain(rec, ok) == IF ok THEN FileDone(rec) ELSE [rec EXCEPT !.pc = "get_contents"]

\* mutant: a rejected update is taken for done
AfterUpdateIgnore(rec, ok) == FileDone(rec)

\* the try/except around repo.update_file: an accepted update ends the file,
\* a rejected one starts the force update
AfterUpdate(rec, ok) == IF ok THEN FileDone(rec) ELSE [rec EXCEPT !.pc = "refetch"]

\* the sha each write passes: existing_file.sha for the update,
\* fresh_file.sha for the delete
UpdateToken(rec) == rec.existing_sha

\* mutant: the delete passes the sha the rejected update used
DeleteTokenStale(rec) == rec.existing_sha

DeleteToken(rec) == rec.fresh_sha

\* repo.update_file with the sha just read
UpdateFile(c) ==
    /\ call[c].pc = "update_file"
    /\ \E fault \in FaultChoices(c) :
          LET path == CurPath(call[c])
              cur == tree[Repo(c)][path]
              tok == UpdateToken(call[c])
              ok == ~fault /\ cur # Absent /\ Sha(cur) = tok
              rec == [call[c] EXCEPT !.faults = @ + Bit(fault /\ cur # Absent /\ Sha(cur) = tok)]
          IN  /\ Logged(Entry(c, "files", "update_file", path, tok, ok))
              /\ IF ok
                 THEN /\ Commit(Repo(c), path, CurContent(rec), "Update")
                      /\ Goto(c, AfterUpdate(rec, ok))
                 ELSE /\ UNCHANGED remote
                      /\ Goto(c, AfterUpdate(rec, ok))
    /\ UNCHANGED <<envOk, now, maxFaults, ntf>>

\* the force update begins: re-fetch to get the latest sha
Refetch(c) ==
    /\ call[c].pc = "refetch"
    /\ \E fault \in FaultChoices(c) :
          LET path == CurPath(call[c])
              cur == tree[Repo(c)][path]
              ok == ~fault /\ cur # Absent
              rec == [call[c] EXCEPT !.faults = @ + Bit(fault /\ cur # Absent)]
          IN  /\ Logged(Entry(c, "files", "get_contents", path,
                               IF ok THEN Sha(cur) ELSE <<>>, ok))
              /\ Goto(c, IF ok THEN [rec EXCEPT !.pc = "delete_file", !.fresh_sha = Sha(cur)]
                          ELSE FileFailed(rec))
    /\ UNCHANGED <<envOk, now, remote, maxFaults, ntf>>

\* mutant: nothing is created after the delete
AfterDeleteStop(rec, ok) == FileFailed(rec)

\* an accepted delete is followed by the create; a rejected one is a failure
\* of the file
AfterDelete(rec, ok) == IF ok THEN [rec EXCEPT !.pc = "recreate_file"] ELSE FileFailed(rec)

DeleteFile(c) ==
    /\ call[c].pc = "delete_file"
    /\ \E fault \in FaultChoices(c) :
          LET path == CurPath(call[c])
              cur == tree[Repo(c)][path]
              tok == DeleteToken(call[c])
              ok == ~fault /\ cur # Absent /\ Sha(cur) = tok
              rec == [call[c] EXCEPT !.faults = @ + Bit(fault /\ cur # Absent /\ Sha(cur) = tok)]
          IN  /\ Logged(Entry(c, "files", "delete_file", path, tok, ok))
              /\ IF ok
                 THEN /\ Commit(Repo(c), path, Absent, "Delete")
                      /\ Goto(c, AfterDelete(rec, ok))
                 ELSE /\ UNCHANGED remote
                      /\ Goto(c, AfterDelete(rec, ok))
    /\ UNCHANGED <<envOk, now, maxFaults, ntf>>

\* repo.create_file after the delete
RecreateFile(c) ==
    /\ call[c].pc = "recreate_file"
    /\ \E fault \in FaultChoices(c) :
          LET path == CurPath(call[c])
              ok == ~fault /\ tree[Repo(c)][path] = Absent
              rec == [call[c] EXCEPT !.faults = @ + Bit(fault /\ tree[Repo(c)][path] = Absent)]
          IN  /\ Logged(Entry(c, "files", "create_file", path, <<>>, ok))
              /\ IF ok
                 THEN /\ Commit(Repo(c), path, CurContent(rec), "Recreate")
                      /\ Goto(c, FileDone(rec))
                 ELSE /\ UNCHANGED remote
                      /\ Goto(c, FileFailed(rec))
    /\ UNCHANGED <<envOk, now, maxFaults, ntf>>

\* mutant: a rejected create is followed by the force update
AfterCreateForce(rec, ok) == IF ok THEN FileDone(rec) ELSE [rec EXCEPT !.pc = "refetch"]

\* the try/except around the create of a file that was not found: its
\* exception is raised again into the handler of the file
AfterCreate(rec, ok) == IF ok THEN FileDone(rec) ELSE FileFailed(rec)

\* repo.create_file of a file that was not found
CreateFile(c) ==
    /\ call[c].pc = "create_file"
    /\ \E fault \in FaultChoices(c) :
          LET path == CurPath(call[c])
              ok == ~fault /\ tree[Repo(c)][path] = Absent
              rec == [call[c] EXCEPT !.faults = @ + Bit(fault /\ tree[Repo(c)][path] = Absent)]
          IN  /\ Logged(Entry(c, "files", "create_file", path, <<>>, ok))
              /\ IF ok
                 THEN /\ Commit(Repo(c), path, CurContent(rec), "Add")
                      /\ Goto(c, AfterCreate(rec, ok))
                 ELSE /\ UNCHANGED remote
                      /\ Goto(c, AfterCreate(rec, ok))
    /\ UNCHANGED <<envOk, now, maxFaults, ntf>>

\* ------------------------------ create_or_update_repo: README.md, LICENSE
\* mutant: a default file that cannot be created ends the call
ScaffoldDoneStrict(step, rec, ok) ==
    IF ok THEN After(step, rec) ELSE Raised(rec, "scaffold")

\* the create of a default file is over: its exception is only printed
ScaffoldDone(step, rec, ok) == After(step, rec)

ReadmeGet(c) ==
    /\ call[c].pc = "readme_get"
    /\ \E fault \in FaultChoices(c) :
          LET ok == ~fault /\ tree[Repo(c)][ReadmeMd] # Absent
              rec == [call[c] EXCEPT !.faults = @ + Bit(fault /\ tree[Repo(c)][ReadmeMd] # Absent)]
          IN  /\ Logged(Entry(c, "scaffold", "get_contents", ReadmeMd, <<>>, ok))
              /\ Goto(c, IF ok THEN After("readme", rec)
                          ELSE [rec EXCEPT !.pc = "readme_create"])
    /\ UNCHANGED <<envOk, now, remote, maxFaults, ntf>>

ReadmeCreate(c) ==
    /\ call[c].pc = "readme_create"
    /\ \E fault \in FaultChoices(c) :
          LET ok == ~fault /\ tree[Repo(c)][ReadmeMd] = Absent
              rec == [call[c] EXCEPT !.faults = @ + Bit(fault /\ tree[Repo(c)][ReadmeMd] = Absent)]
          IN  /\ Logged(Entry(c, "scaffold", "create_file", ReadmeMd, <<>>, ok))
              /\ IF ok THEN Commit(Repo(c), ReadmeMd, DefaultReadme(Repo(c)), "Add README")
                 ELSE UNCHANGED remote
              /\ Goto(c, ScaffoldDone("readme", rec, ok))
    /\ UNCHANGED <<envOk, now, maxFaults, ntf>>

LicenseGet(c) ==
    /\ call[c].pc = "license_get"
    /\ \E fault \in FaultChoices(c) :
          LET ok == ~fault /\ tree[Repo(c)][License] # Absent
              rec == [call[c] EXCEPT !.faults = @ + Bit(fault /\ tree[Repo(c)][License] # Absent)]
          IN  /\ Logged(Entry(c, "scaffold", "get_contents", License, <<>>, ok))
              /\ Goto(c, IF ok THEN After("license", rec)
                          ELSE [rec EXCEPT !.pc = "license_create"])
    /\ UNCHANGED <<envOk, now, remote, maxFaults, ntf>>

LicenseCreate(c) ==
    /\ call[c].pc = "license_create"
    /\ \E fault \in FaultChoices(c) :
          LET ok == ~fault /\ tree[Repo(c)][License] = Absent
              rec == [call[c] EXCEPT !.faults = @ + Bit(fault /\ tree[Repo(c)][License] = Absent)]
          IN  /\ Logged(Entry(c, "scaffold", "create_file", License, <<>>, ok))
              /\ IF ok THEN Commit(Repo(c), License, LicenseText, "Add LICENSE")
                 ELSE UNCHANGED remote
              /\ Goto(c, ScaffoldDone("license", rec, ok))
    /\ UNCHANGED <<envOk, now, maxFaults, ntf>>

\* ------------------------- create_or_update_repo: hosting and revision
PagesStatuses == {201, 404}
PagesSuccess == {200, 201, 204}
PagesStatusChoices(c) ==
    IF TRUE \in FaultChoices(c) THEN PagesStatuses ELSE PagesStatuses \cap PagesSuccess

\* mutant: a hosting request that fails ends the call
HostingDoneStrict(step, rec, ok) ==
    IF ok THEN After(step, rec) ELSE Raised(rec, "hosting")

\* a hosting request is over: its status and its exception are only printed
HostingDone(step, rec, ok) == After(step, rec)

\* POST .../pages, on BUILD only
EnablePages(c) ==
    /\ call[c].pc = "enable_pages"
    /\ \E raised \in FaultChoices(c), status_code \in PagesStatusChoices(c) :
          LET ok == ~raised /\ status_code \in PagesSuccess
              rec == [call[c] EXCEPT !.faults = @ + Bit(~ok)]
          IN  /\ Logged(Entry(c, "hosting", "enable_pages", "", <<>>, ok))
              /\ Goto(c, HostingDone("enable_pages", rec, ok))
    /\ UNCHANGED <<envOk, now, remote, maxFaults, ntf>>

\* mutant: a failed listing leaves a revision that looks real
LatestCommitShaStale(commits, fault) ==
    IF commits # <<>> THEN Sha(commits[1]) ELSE Sha(<<"stale">>)

\* latest_commit_sha: the sha of the first commit listed, "unknown" when the
\* listing raises or is empty
LatestCommitSha(commits, fault) ==
    IF ~fault /\ commits # <<>> THEN Sha(commits[1]) ELSE Unknown

\* repo.get_commits()[:1]
GetCommits(c) ==
    /\ call[c].pc = "get_commits"
    /\ \E fault \in FaultChoices(c) :
          LET commits == IF head[Repo(c)] = NoCommit THEN <<>> ELSE <<head[Repo(c)]>>
              ok == ~fault /\ commits # <<>>
              latest_commit_sha == LatestCommitSha(commits, fault)
              rec == [call[c] EXCEPT !.faults = @ + Bit(fault /\ commits # <<>>), !.commit_sha = latest_commit_sha]
          IN  /\ Logged(Entry(c, "revision", "get_commits", "", <<>>, ok))
              /\ Goto(c, After("get_commits", rec))
    /\ UNCHANGED <<envOk, now, remote, maxFaults, ntf>>

\* POST .../pages/builds, on REVISE only
PagesBuild(c) ==
    /\ call[c].pc = "pages_build"
    /\ \E raised \in FaultChoices(c), status_code \in PagesStatusChoices(c) :
          LET ok == ~raised /\ status_code \in PagesSuccess
              rec == [call[c] EXCEPT !.faults = @ + Bit(~ok)]
          IN  /\ Logged(Entry(c, "hosting", "pages_build", "", <<>>, ok))
              /\ Goto(c, HostingDone("pages_build", rec, ok))
    /\ UNCHANGED <<envOk, now, remote, maxFaults, ntf>>

\* ------------------------------------------------------- build_app, part 2
MaxRetries == 5
Timeout == -1
RequestError == -2

\* mutant: any 2xx status counts as delivered
AcceptedAny2xx(r) == r \in 200..299

\* `if response.status_code == 200`
Accepted(r) == r = 200

\* mutant: every answer but 200 is retried
RetryableAny(r) == r # 200

\* the answers after which the loop tries again: a server error, a timeout,
\* any other exception
Retryable(r) == r >= 500 \/ r \in {Timeout, RequestError}

RECURSIVE Pow2(_)
Pow2(n) == IF n = 0 THEN 1 ELSE 2 * Pow2(n - 1)

\* the retry loop of notify_evaluation_api_with_retry from the given attempt
\* on; responses[k] is what the k-th POST meets
RECURSIVE NotifyLoop(_, _, _, _)
NotifyLoop(responses, max_retries, attempt, delays) ==
    IF attempt >= max_retries THEN [ok |-> FALSE, posts |-> attempt, delays |-> delays]
    ELSE LET r == responses[attempt + 1] IN
         IF Accepted(r) THEN [ok |-> TRUE, posts |-> attempt + 1, delays |-> delays]
         ELSE IF Retryable(r)
              THEN IF attempt < max_retries - 1
                   THEN NotifyLoop(responses, max_retries, attempt + 1,
                                   Append(delays, Pow2(attempt)))
                   ELSE [ok |-> FALSE, posts |-> attempt + 1, delays |-> delays]
              ELSE [ok |-> FALSE, posts |-> attempt + 1, delays |-> delays]

notify_evaluation_api_with_retry(evaluation_url, responses, max_retries) ==
    IF evaluation_url = <<>> THEN [ok |-> FALSE, posts |-> 0, delays |-> <<>>]
    ELSE NotifyLoop(responses, max_retries, 0, <<>>)

\* what the evaluation service answers to the successive POSTs of one request
NotifyScripts ==
    { [k \in 1..MaxRetries |-> 200],
      [k \in 1..MaxRetries |-> 404],
      [k \in 1..MaxRetries |-> 500],
      [k \in 1..MaxRetries |-> IF k < 3 THEN Timeout ELSE 200] }

EvaluationUrls == {<<>>, <<"https:", "/", "/", "eval">>}

\* mutant: a failed notification turns the answer into an error
BuildResponseStrict(ret, notification_success) ==
    IF notification_success
    THEN [status |-> "success", resp |-> <<ret[1], ret[3], ret[2]>>]
    ELSE [status |-> "error", resp |-> <<>>]

\* the answer of build_app after the notification: repo_url, pages_url and
\* commit_sha of the returned tuple, whatever the notifier returned
BuildResponse(ret, notification_success) ==
    [status |-> "success", resp |-> <<ret[1], ret[3], ret[2]>>]

\* the evaluation service is notified, and build_app answers success
Notify(c) ==
    /\ call[c].pc = "notify"
    /\ \E evaluation_url \in EvaluationUrls, responses \in NotifyScripts :
          LET n == notify_evaluation_api_with_retry(evaluation_url, responses, MaxRetries)
              r == BuildResponse(call[c].ret, n.ok)
          IN  /\ Logged(Entry(c, "notify", "notify", "", <<>>, n.ok))
              /\ Goto(c, [call[c] EXCEPT !.pc = "responded", !.status = r.status,
                                          !.resp = r.resp])
    /\ UNCHANGED <<envOk, now, remote, maxFaults, ntf>>

\* ------------------------------------------------------------ specification
Step(c) ==
    \/ Generate(c)
    \/ SyncEnter(c)
    \/ CreateRepo(c)
    \/ GetRepo(c)
    \/ SearchFallback(c)
    \/ SearchNoUrl(c)
    \/ GetContents(c)
    \/ UpdateFile(c)
    \/ Refetch(c)
    \/ DeleteFile(c)
    \/ RecreateFile(c)
    \/ CreateFile(c)
    \/ ReadmeGet(c)
    \/ ReadmeCreate(c)
    \/ LicenseGet(c)
    \/ LicenseCreate(c)
    \/ EnablePages(c)
    \/ GetCommits(c)
    \/ PagesBuild(c)
    \/ Notify(c)

\* one request
Next == Receive(1) \/ Step(1)

Spec == Init /\ [][Next]_vars

\* the request is repeated after a run that met no remote fault; the caller
\* starts with two repositories of the task
Clean(c) == call[c].pc = "responded" /\ call[c].status = "success" /\ call[c].faults = 0

InitTwice ==
    /\ InitRemote
    /\ maxFaults = <<MaxFaultsTwice>>
    /\ ntf = IdleNotifier
    /\ envOk
    /\ repos = <<Quiz2Repo, OldRepo>>

NextTwice ==
    \E c \in Calls :
        \/ (IF c = 1 THEN TRUE ELSE Clean(c - 1)) /\ Receive(c)
        \/ Step(c)

SpecTwice == InitTwice /\ [][NextTwice]_vars

\* ------------------------- notify_evaluation_api_with_retry, step by step
\* what one POST to the evaluation service can meet: a status code, a
\* timeout, or another exception
NotifyResponses == {200, 201, 404, 500, Timeout, RequestError}

\* the call: an empty URL returns False at once, and so does an empty range
NotifierCall ==
    /\ ntf.pc = "idle"
    /\ ntf' = IF ntf.evaluation_url = <<>> \/ ntf.max_retries = 0
              THEN [ntf EXCEPT !.pc = "done", !.result = FALSE]
              ELSE [ntf EXCEPT !.pc = "post", !.attempt = 0]
    /\ UNCHANGED <<envOk, now, remote, call, log, maxFaults>>

\* one iteration of the loop: requests.post and what follows its answer
NotifierPost ==
    /\ ntf.pc = "post"
    /\ \E r \in NotifyResponses :
          LET n == [ntf EXCEPT !.got = Append(@, r)] IN
          ntf' = IF Accepted(r) THEN [n EXCEPT !.pc = "done", !.result = TRUE]
                 ELSE IF Retryable(r)
                      THEN IF n.attempt < n.max_retries - 1
                           THEN [n EXCEPT !.slept = Append(@, Pow2(n.attempt)),
                                          !.attempt = @ + 1]
                           ELSE [n EXCEPT !.pc = "done", !.result = FALSE]
                      ELSE [n EXCEPT !.pc = "done", !.result = FALSE]
    /\ UNCHANGED <<envOk, now, remote, call, log, maxFaults>>

\* the notifier alone, called with any URL and any max_retries up to the default
InitNotify ==
    /\ InitRemote
    /\ envOk
    /\ repos = <<>>
    /\ maxFaults = <<MaxFaults>>
    /\ \E u \in EvaluationUrls, m \in 0..MaxRetries :
          ntf = [IdleNotifier EXCEPT !.evaluation_url = u, !.max_retries = m]

NextNotify == NotifierCall \/ NotifierPost

SpecNotify == InitNotify /\ [][NextNotify]_vars

\* ------------------------------------------------------------------ claims
FilePcs == {"get_contents", "update_file", "refetch", "delete_file", "recreate_file", "create_file"}
Finished(c) == call[c].pc = "responded"
Succeeded(c) == Finished(c) /\ call[c].status = "success"
LogOf(c) == SelectSeq(log, LAMBDA e : e.call = c)

\* request c repeats request c - 1: same files, same repository, and the
\* earlier run met no remote fault
Repeats(c) ==
    /\ c > 1
    /\ Clean(c - 1)
    /\ call[c].files = call[c - 1].files
    /\ call[c].repo_name = call[c - 1].repo_name

\* C1: idempotent reconciliation. While a run repeats the run before it with
\* the same files on the same repository and meets no remote fault, no step of
\* its file loop changes the content of any path, and every request the loop
\* issues is a successful read or a successful update (never a create or delete).
C1_Idempotent ==
    [][\A c \in Calls :
          (/\ c > 1
           /\ call[c].pc \in FilePcs
           /\ call'[c] # call[c]
           /\ Repeats(c)
           /\ call'[c].faults = 0)
          => /\ tree' = tree
             /\ log' = Append(log, log'[Len(log')])
             /\ log'[Len(log')].ok
             /\ log'[Len(log')].op \in {"get_contents", "update_file"}
             /\ log'[Len(log')].op = "update_file" =>
                    tree[Repo(c)][CurPath(call[c])] = CurContent(call[c])]_vars

\* a repeated run has finished: it updated every one of its files
C1_Witness ==
    \E c \in Calls :
        /\ Repeats(c)
        /\ Succeeded(c)
        /\ call[c].faults = 0
        /\ Len(call[c].files) = MaxFiles
        /\ \A i \in DOMAIN call[c].files :
              \E k \in DOMAIN log :
                  /\ log[k].call = c /\ log[k].op = "update_file" /\ log[k].ok
                  /\ log[k].path = call[c].files[i][1]
        /\ \A p \in Keys(call[c].files) : tree[Repo(c)][p] = call[c].files[1][2]

\* the requests call c has issued on one path, in order
PathOps(c, p) == SelectSeq(log, LAMBDA e : e.call = c /\ e.path = p)

\* entry k of L is the request at which the write of its file was given up:
\* a rejected create, a rejected delete, or a failed re-read after a
\* rejected update
GaveUp(L, k) ==
    /\ L[k].step = "files"
    /\ ~L[k].ok
    /\ \/ L[k].op \in {"create_file", "delete_file"}
       \/ /\ L[k].op = "get_contents"
          /\ k > 1
          /\ L[k - 1].op = "update_file"
          /\ L[k - 1].path = L[k].path

HasEntry(L, step, op, path) ==
    \E k \in DOMAIN L : L[k].step = step /\ L[k].op = op /\ L[k].path = path

HasStep(L, step) == \E k \in DOMAIN L : L[k].step = step

\* C2: critical-file fatality. Once the write of index.html has been given up
\* (the create failed, or the update and then a step of the delete-and-recreate
\* failed), the call has raised, build_app holds no result, and the failing
\* request is the last one the call ever issues: no later file, no scaffold
\* step, no hosting request, no revision read.
C2_CriticalFatal ==
    \A c \in Calls :
        LET L == LogOf(c) IN
        \A k \in DOMAIN L :
            (GaveUp(L, k) /\ L[k].path = IndexHtml)
            => /\ k = Len(L)
               /\ Finished(c)
               /\ call[c].status = "error"
               /\ call[c].detail = "critical file"
               /\ call[c].ret = <<>>

\* index.html existed, its update, and then the re-create after the delete,
\* failed, with another file still to come
C2_Witness ==
    \E c \in Calls :
        LET L == LogOf(c) IN
        /\ Finished(c)
        /\ call[c].detail = "critical file"
        /\ Len(call[c].files) = 2
        /\ call[c].files[1][1] = IndexHtml
        /\ Len(L) > 5
        /\ L[Len(L)].op = "create_file" /\ ~L[Len(L)].ok
        /\ L[Len(L) - 1].op = "delete_file" /\ L[Len(L) - 1].ok
        /\ L[Len(L) - 3].op = "update_file" /\ ~L[Len(L) - 3].ok
        /\ tree[Repo(c)][IndexHtml] = Absent

\* the position in F of the file that entry k of L is about
FileIndex(c, path) == CHOOSE i \in DOMAIN call[c].files : call[c].files[i][1] = path

\* every step that follows the file loop has been run by call c
TailRan(c) ==
    LET L == LogOf(c) IN
    /\ ReadmeMd \notin Keys(call[c].files) => HasEntry(L, "scaffold", "get_contents", ReadmeMd)
    /\ License \notin Keys(call[c].files) => HasEntry(L, "scaffold", "get_contents", License)
    /\ HasStep(L, "hosting")
    /\ HasStep(L, "revision")

C4_RecoverOnce ==
    \A c \in Calls : \A p \in Paths :
        LET P == PathOps(c, p) IN
        \A k \in DOMAIN P :
            (P[k].op = "update_file" /\ ~P[k].ok)
            => /\ k = 2
               /\ P[1].op = "get_contents" /\ P[1].ok
               /\ Len(P) <= 5
               /\ Len(P) >= 3 => P[3].op = "get_contents"
               /\ Len(P) >= 4 => P[3].ok /\ P[4].op = "delete_file"
               /\ Len(P) = 5 => P[4].ok /\ P[5].op = "create_file"
               /\ (call[c].pc \notin FilePcs \/ CurPath(call[c]) # p) => Len(P) >= 3
               /\ (Len(P) < 5 /\ P[Len(P)].ok) => (call[c].pc \in FilePcs /\ CurPath(call[c]) = p)

\* the update of a first file was rejected, its re-read failed, and the call
\* has gone on to finish
C4_Witness ==
    \E c \in Calls :
        LET P == PathOps(c, License) IN
        /\ Succeeded(c)
        /\ call[c].files[1][1] = License
        /\ Len(P) = 4
        /\ ~P[2].ok /\ P[3].ok /\ ~P[4].ok
        /\ tree[Repo(c)][License] = LicenseText

\* the resolution of call c is over (and was reached)
PastResolution(c) ==
    /\ call[c].round # 0
    /\ envOk
    /\ call[c].pc \notin {"create_repo", "get_repo", "get_repos_fallback", "get_repos_no_url"}

\* C5: create-vs-update branching. A request whose round is 1 and that
\* reaches the resolution creates a repository, whatever its repo_url, and
\* makes no get-repository or list-repositories lookup; a request whose
\* round is 2 or more never creates a repository.
C5_Branching ==
    \A c \in Calls :
        LET L == LogOf(c) IN
        /\ call[c].round = 1 =>
              /\ ~HasEntry(L, "resolve", "get_repo", "")
              /\ ~HasEntry(L, "resolve", "get_repos", "")
              /\ envOk => call[c].pc = "create_repo" \/ HasEntry(L, "resolve", "create_repo", "")
        /\ call[c].round >= 2 =>
              /\ ~HasEntry(L, "resolve", "create_repo", "")
              /\ call[c].pc # "create_repo"
              /\ ~call[c].create_new

\* a round-1 request that carried a repo_url, while the caller owned a
\* repository of the task, has created a new one and finished
C5_Witness ==
    \E c \in Calls :
        /\ Succeeded(c)
        /\ call[c].round = 1
        /\ call[c].url_given
        /\ InSeq(OldRepo, repos)
        /\ Repo(c) # OldRepo
        /\ HasEntry(LogOf(c), "resolve", "create_repo", "")

\* a round-2 request has resolved its repository and finished
C5_WitnessUpdate ==
    \E c \in Calls : Succeeded(c) /\ call[c].round = 2 /\ Repo(c) = OldRepo

\* C6: resolution fallback order in UPDATE mode. A successful fetch by the
\* trailing segment of a supplied repo_url decides the repository and no
\* search is made; with no repo_url, or after a failed fetch, the search is
\* made and its first match adopted; when a repo_url is supplied the search
\* comes only right after the failed fetch, and no fetch ever follows a search.
C6_FallbackOrder ==
    \A c \in Calls :
        LET L == LogOf(c)
            url == call[c].repo_url
        IN
        call[c].round >= 2 =>
            /\ \A k \in DOMAIN L :
                  (L[k].op = "get_repo" /\ L[k].ok)
                  => /\ Truthy(url)
                     /\ Repo(c) = RepoNameOfUrl(url)
                     /\ ~HasEntry(L, "resolve", "get_repos", "")
            /\ \A k \in DOMAIN L :
                  L[k].op = "get_repos"
                  => /\ IF Truthy(url)
                        THEN k > 1 /\ L[k - 1].op = "get_repo" /\ ~L[k - 1].ok
                        ELSE ~HasEntry(L, "resolve", "get_repo", "")
                     /\ \A j \in DOMAIN L : j > k => L[j].op \notin {"get_repo", "get_repos"}
            /\ (PastResolution(c)
                 /\ (~Truthy(url) \/ \E k \in DOMAIN L : L[k].op = "get_repo" /\ ~L[k].ok))
               => /\ HasEntry(L, "resolve", "get_repos", "")
                  /\ Repo(c) # NoRepo =>
                        /\ StartsWith(Repo(c), TaskName)
                        /\ \A i \in DOMAIN repos :
                              StartsWith(repos[i], TaskName)
                              => \E j \in 1..i : repos[j] = Repo(c)

\* the repo_url, with a trailing slash, named an existing repository that is
\* not the first match of the search, and the fetch succeeded
C6_Witness ==
    \E c \in Calls :
        /\ Succeeded(c)
        /\ call[c].round >= 2
        /\ call[c].repo_url = HtmlUrl(OldRepo) \o <<"/">>
        /\ repos = <<Quiz2Repo, OldRepo>>
        /\ Repo(c) = OldRepo
        /\ HasEntry(LogOf(c), "resolve", "get_repo", "")

\* the fetch by repo_url failed and the search adopted another repository
C6_WitnessFallback ==
    \E c \in Calls :
        LET L == LogOf(c) IN
        /\ Succeeded(c)
        /\ call[c].round >= 2
        /\ call[c].repo_url = HtmlUrl(GoneRepo)
        /\ Repo(c) = Quiz2Repo
        /\ HasEntry(L, "resolve", "get_repo", "")
        /\ HasEntry(L, "resolve", "get_repos", "")

\* C7: resolution failure is fatal and free of side effects. In UPDATE mode,
\* when no repository of the caller has a name that starts with the task
\* identifier and the repo_url is absent or its fetch has failed, the call has
\* raised once the resolution is over, and it has issued no file request, no
\* hosting request, no revision read and no notification.
C7_ResolutionFatal ==
    \A c \in Calls :
        LET L == LogOf(c)
            url == call[c].repo_url
        IN
        (/\ call[c].round >= 2
         /\ PastResolution(c)
         /\ \A i \in DOMAIN repos : ~StartsWith(repos[i], TaskName)
         /\ (~Truthy(url) \/ \E k \in DOMAIN L : L[k].op = "get_repo" /\ ~L[k].ok))
        => /\ Finished(c)
           /\ call[c].status = "error"
           /\ call[c].detail = "Failed to find repo"
           /\ call[c].ret = <<>>
           /\ \A k \in DOMAIN L : L[k].step \in {"generate", "resolve"}

\* the caller owns a repository of another task only; the fetch of the
\* repo_url failed and so did the search
C7_Witness ==
    \E c \in Calls :
        LET L == LogOf(c) IN
        /\ Finished(c)
        /\ call[c].detail = "Failed to find repo"
        /\ repos = <<BlogRepo>>
        /\ call[c].repo_url = HtmlUrl(GoneRepo)
        /\ L[Len(L)].op = "get_repos" /\ L[Len(L)].ok
        /\ call[c].faults = 0

TailPcs ==
    {"readme_get", "readme_create", "license_get", "license_create",
     "enable_pages", "get_commits", "pages_build", "notify"}

\* C8: scaffold non-clobber. For README.md and LICENSE alike, when the path is
\* among the files, the call issues no scaffold request on it, and no step
\* after the file loop changes its content: what the loop left there stays.
C8_NonClobber ==
    [][\A c \in Calls : \A p \in {ReadmeMd, License} :
          p \in Keys(call'[c].files)
          => /\ \A k \in DOMAIN log' :
                   ~(log'[k].call = c /\ log'[k].step = "scaffold" /\ log'[k].path = p)
             /\ (call[c].pc \in TailPcs /\ call'[c] # call[c])
                => tree'[Repo(c)][p] = tree[Repo(c)][p]]_vars

\* README.md was among the files, its write was given up after the delete,
\* and the finished call has left the path without a file
C8_Witness ==
    \E c \in Calls :
        /\ Succeeded(c)
        /\ ReadmeMd \in Keys(call[c].files)
        /\ License \notin Keys(call[c].files)
        /\ tree[Repo(c)][ReadmeMd] = Absent
        /\ HasEntry(LogOf(c), "scaffold", "get_contents", License)

IsWrite(e) == e.op \in {"update_file", "delete_file", "create_file"}

\* C9: step ordering. In the requests of one call, no write of a user file
\* follows a scaffold write, and no file write of any kind follows a hosting
\* request.
C9_StepOrder ==
    \A c \in Calls :
        LET L == LogOf(c) IN
        \A j, k \in DOMAIN L :
            j < k =>
                /\ ~(L[j].step = "scaffold" /\ IsWrite(L[j]) /\ L[k].step = "files" /\ IsWrite(L[k]))
                /\ ~(L[j].step = "hosting" /\ IsWrite(L[k]))
                /\ ~(L[j].step = "scaffold" /\ L[k].step = "files")

\* a finished call wrote a user file, then a default, then asked for hosting
C9_Witness ==
    \E c \in Calls :
        LET L == LogOf(c) IN
        /\ Succeeded(c)
        /\ \E i, j, k \in DOMAIN L :
              /\ i < j /\ j < k
              /\ L[i].step = "files" /\ IsWrite(L[i]) /\ L[i].ok
              /\ L[j].step = "scaffold" /\ IsWrite(L[j]) /\ L[j].ok
              /\ L[k].step = "hosting"

\* the requests of call c before the notification
SyncLog(c) == SelectSeq(log, LAMBDA e : e.call = c /\ e.step # "notify")

\* C10 as stated: in both modes the revision read follows the hosting request
\* of the mode and is the last remote step of the call.
C10_Original ==
    \A c \in Calls :
        LET L == SyncLog(c) IN
        /\ \A j, k \in DOMAIN L : (L[j].op = "get_commits" /\ L[k].step = "hosting") => k < j
        /\ call[c].ret # <<>> => L[Len(L)].op = "get_commits"

\* C10 (amended): in CREATE mode the revision read follows enable-hosting and
\* is the last remote step of the call; in UPDATE mode the revision read comes
\* right before trigger-rebuild, which is the last remote step.
C10_RevisionOrder ==
    \A c \in Calls :
        LET L == SyncLog(c) IN
        /\ \A k \in DOMAIN L :
              L[k].op = "get_commits" =>
                  IF call[c].create_new
                  THEN k > 1 /\ L[k - 1].op = "enable_pages" /\ k = Len(L)
                  ELSE /\ \A j \in DOMAIN L : L[j].step = "hosting" => j = k + 1
                       /\ call[c].ret # <<>> => Len(L) = k + 1
        /\ call[c].ret # <<>> =>
              /\ Len(L) > 1
              /\ IF call[c].create_new
                 THEN L[Len(L)].op = "get_commits" /\ L[Len(L) - 1].op = "enable_pages"
                 ELSE L[Len(L)].op = "pages_build" /\ L[Len(L) - 1].op = "get_commits"

\* an UPDATE call has returned: its rebuild request came after the revision read
C10_Witness ==
    \E c \in Calls :
        LET L == SyncLog(c) IN
        /\ Succeeded(c)
        /\ ~call[c].create_new
        /\ call[c].ret[2] # Unknown
        /\ L[Len(L)].op = "pages_build"
        /\ L[Len(L) - 1].op = "get_commits"

\* a CREATE call has returned: its revision read came last
C10_WitnessCreate ==
    \E c \in Calls :
        LET L == SyncLog(c) IN
        /\ Succeeded(c)
        /\ call[c].create_new
        /\ L[Len(L)].op = "get_commits"
        /\ L[Len(L) - 1].op = "enable_pages"

\* the revision read of call c failed: the listing raised or was empty
RevisionFailed(c) ==
    \E k \in DOMAIN log : log[k].call = c /\ log[k].op = "get_commits" /\ ~log[k].ok

RevisionRead(c) ==
    \E k \in DOMAIN log : log[k].call = c /\ log[k].op = "get_commits" /\ log[k].ok

\* C11: revision sentinel. When the listing of the commits raises or returns
\* no commit, the call does not raise: it goes on to return a Publication
\* Result whose revision is exactly "unknown", and build_app notifies the
\* evaluation service and answers success with that revision. A listing that
\* succeeds never yields "unknown".
C11_RevisionSentinel ==
    \A c \in Calls :
        /\ RevisionFailed(c) =>
              /\ call[c].commit_sha = Unknown
              /\ call[c].status # "error"
              /\ call[c].pc \in {"pages_build", "notify", "responded"}
              /\ call[c].pc \in {"notify", "responded"} => call[c].ret[2] = Unknown
              /\ Finished(c) =>
                    /\ Succeeded(c)
                    /\ HasStep(LogOf(c), "notify")
                    /\ call[c].resp[3] = Unknown
        /\ RevisionRead(c) =>
              /\ call[c].commit_sha # Unknown
              /\ call[c].commit_sha = Sha(head[Repo(c)])

\* the repository has commits, their listing raised, and the request ended
\* in success with the sentinel
C11_Witness ==
    \E c \in Calls :
        /\ Succeeded(c)
        /\ RevisionFailed(c)
        /\ head[Repo(c)] # NoCommit
        /\ call[c].ret[2] = Unknown
        /\ call[c].resp[3] = Unknown

\* the repository has no commit at all, and the request ended in success
\* with the sentinel
C11_WitnessEmpty ==
    \E c \in Calls :
        /\ Succeeded(c)
        /\ RevisionFailed(c)
        /\ head[Repo(c)] = NoCommit
        /\ call[c].resp[3] = Unknown

\* the positions in the log of the requests op of call c
OpsOf(c, op) == {k \in DOMAIN log : log[k].call = c /\ log[k].op = op}

\* C12: mode-exclusive hosting actions. A call requests enable-hosting at most
\* once and only with create_new true, trigger-rebuild at most once and only
\* with create_new false, and never both.
C12_HostingExclusive ==
    \A c \in Calls :
        /\ Cardinality(OpsOf(c, "enable_pages")) <= 1
        /\ Cardinality(OpsOf(c, "pages_build")) <= 1
        /\ OpsOf(c, "enable_pages") # {} => call[c].create_new /\ call[c].round = 1
        /\ OpsOf(c, "pages_build") # {} => ~call[c].create_new /\ call[c].round >= 2
        /\ OpsOf(c, "enable_pages") = {} \/ OpsOf(c, "pages_build") = {}

\* a CREATE call has finished with its one enable-hosting request and no
\* rebuild request
C12_Witness ==
    \E c \in Calls :
        /\ Succeeded(c)
        /\ call[c].create_new
        /\ Cardinality(OpsOf(c, "enable_pages")) = 1
        /\ OpsOf(c, "pages_build") = {}

\* an UPDATE call has finished with its one rebuild request and no
\* enable-hosting request
C12_WitnessUpdate ==
    \E c \in Calls :
        /\ Succeeded(c)
        /\ ~call[c].create_new
        /\ Cardinality(OpsOf(c, "pages_build")) = 1
        /\ OpsOf(c, "enable_pages") = {}

\* the hosting request of call c, if it has made one
HostingOps(c) == OpsOf(c, "enable_pages") \cup OpsOf(c, "pages_build")

\* C13: hosting soft failure. Once a call has made its hosting request, with
\* whatever outcome (a success status, another status, an exception), it has
\* not raised and it goes on; the Publication Result it returns is made of the
\* repository URL, the revision that the revision read gave and the hosting
\* URL, none of which depends on the outcome of the hosting request.
C13_HostingSoft ==
    \A c \in Calls :
        HostingOps(c) # {} =>
            /\ call[c].status # "error"
            /\ call[c].pc \in {"get_commits", "notify", "responded"}
            /\ call[c].pc \in {"notify", "responded"} =>
                  call[c].ret = << HtmlUrl(Repo(c)),
                                   IF RevisionRead(c) THEN Sha(head[Repo(c)]) ELSE Unknown,
                                   PagesUrl(Repo(c)) >>

\* the enable-hosting request of a CREATE call failed, and the call returned
\* a result with a real revision
C13_Witness ==
    \E c \in Calls :
        /\ Succeeded(c)
        /\ \E k \in OpsOf(c, "enable_pages") : ~log[k].ok
        /\ call[c].ret[1] = HtmlUrl(Repo(c))
        /\ call[c].ret[2] = Sha(head[Repo(c)])
        /\ call[c].ret[3] = PagesUrl(Repo(c))

\* the rebuild request of an UPDATE call failed, and the call returned a result
C13_WitnessRebuild ==
    \E c \in Calls :
        /\ Succeeded(c)
        /\ \E k \in OpsOf(c, "pages_build") : ~log[k].ok
        /\ call[c].ret[2] = Sha(head[Repo(c)])

\* the generator of call c returned an empty mapping
GenerationEmpty(c) ==
    \E k \in DOMAIN log : log[k].call = c /\ log[k].op = "generate" /\ ~log[k].ok

\* C14: generation failure gate. When the generator returns an empty mapping,
\* build_app answers with the generation error at once: create_or_update_repo
\* is never entered (no round or mode is derived, no remote request is made,
\* nothing is returned) and the notifier is never called.
C14_GenerationGate ==
    \A c \in Calls :
        GenerationEmpty(c) =>
            /\ Finished(c)
            /\ call[c].status = "error"
            /\ call[c].detail = "Failed to generate"
            /\ call[c].round = 0
            /\ call[c].repo_name = NoRepo
            /\ call[c].ret = <<>>
            /\ call[c].resp = <<>>
            /\ call[c].faults = 0
            /\ Len(LogOf(c)) = 1

\* the generator failed for a caller whose credentials are set and who owns
\* a repository of the task
C14_Witness ==
    \E c \in Calls :
        /\ GenerationEmpty(c)
        /\ Finished(c)
        /\ call[c].secret_ok
        /\ envOk
        /\ InSeq(OldRepo, repos)

\* C15: secret gate. A request whose secret differs from the configured one
\* is answered with the secret error at once: the generator, the synchronizer
\* and the notifier are never invoked for it (it has no generated files, no
\* round or mode derived, no request in the log, nothing returned).
C15_SecretGate ==
    \A c \in Calls :
        (call[c].pc # "idle" /\ call[c].secret # StudentSecret) =>
            /\ Finished(c)
            /\ call[c].status = "error"
            /\ call[c].detail = "Invalid secret"
            /\ ~call[c].secret_ok
            /\ call[c].files = <<>>
            /\ call[c].round = 0
            /\ call[c].repo_name = NoRepo
            /\ call[c].ret = <<>>
            /\ call[c].resp = <<>>
            /\ LogOf(c) = <<>>

\* a request with a wrong secret was rejected although the credentials are
\* set and a repository of the task exists
C15_Witness ==
    \E c \in Calls :
        /\ Finished(c)
        /\ call[c].secret = <<"guess">>
        /\ call[c].detail = "Invalid secret"
        /\ envOk
        /\ InSeq(OldRepo, repos)

\* C16: configuration error. With the GitHub user name or the token missing,
\* a call that enters create_or_update_repo, in either mode, raises at once:
\* it makes no remote request at all (no repository create, get or list, no
\* file operation, no hosting request, no revision read) and returns nothing.
C16_ConfigError ==
    \A c \in Calls :
        (~envOk /\ call[c].round # 0) =>
            /\ Finished(c)
            /\ call[c].status = "error"
            /\ call[c].detail = "credentials"
            /\ call[c].repo_name = NoRepo
            /\ call[c].ret = <<>>
            /\ call[c].faults = 0
            /\ \A k \in DOMAIN log : log[k].call = c => log[k].step = "generate"

\* a CREATE call was refused for missing credentials
C16_Witness ==
    \E c \in Calls :
        /\ ~envOk
        /\ Finished(c)
        /\ call[c].detail = "credentials"
        /\ call[c].create_new
        /\ call[c].files # <<>>

\* an UPDATE call that names an existing repository was refused for missing
\* credentials
C16_WitnessUpdate ==
    \E c \in Calls :
        /\ ~envOk
        /\ Finished(c)
        /\ call[c].detail = "credentials"
        /\ call[c].round >= 2
        /\ call[c].repo_url = HtmlUrl(OldRepo) \o <<"/">>
        /\ InSeq(OldRepo, repos)

\* C17: notification independence. Once create_or_update_repo has returned
\* its Publication Result the request cannot end in an error: build_app calls
\* the notifier once and, whether it returns True or False, answers success
\* with the repository URL, the hosting URL and the revision of that result.
C17_NotifyIndependent ==
    \A c \in Calls :
        call[c].ret # <<>> =>
            /\ call[c].status # "error"
            /\ call[c].pc \in {"notify", "responded"}
            /\ call[c].pc = "notify" => OpsOf(c, "notify") = {}
            /\ Finished(c) =>
                  /\ call[c].status = "success"
                  /\ Cardinality(OpsOf(c, "notify")) = 1
                  /\ call[c].resp = <<call[c].ret[1], call[c].ret[3], call[c].ret[2]>>

\* the notifier returned False and the request was answered with success and
\* the result
C17_Witness ==
    \E c \in Calls :
        /\ Finished(c)
        /\ \E k \in OpsOf(c, "notify") : ~log[k].ok
        /\ call[c].status = "success"
        /\ call[c].resp = <<HtmlUrl(Repo(c)), PagesUrl(Repo(c)), call[c].commit_sha>>

\* the notifier returned True and the request was answered with success
C17_WitnessNotified ==
    \E c \in Calls :
        /\ Finished(c)
        /\ \E k \in OpsOf(c, "notify") : log[k].ok
        /\ call[c].status = "success"

\* the reasons for which create_or_update_repo raises
RaiseDetails == {"credentials", "create_repo", "Failed to find repo", "critical file"}

\* C18: fatal propagation. When create_or_update_repo has raised, for missing
\* credentials, a failed creation or resolution, or a failed index.html, the
\* request is over with an error result that carries no repository URL,
\* revision or hosting URL, and the notifier was not invoked.
C18_FatalPropagation ==
    \A c \in Calls :
        call[c].detail \in RaiseDetails =>
            /\ Finished(c)
            /\ call[c].status = "error"
            /\ call[c].ret = <<>>
            /\ call[c].resp = <<>>
            /\ OpsOf(c, "notify") = {}

\* a CREATE call made its repository and then failed on index.html: the
\* repository exists, and the answer is an error without its URL
C18_Witness ==
    \E c \in Calls :
        /\ Finished(c)
        /\ call[c].detail = "critical file"
        /\ call[c].create_new
        /\ InSeq(Repo(c), repos)
        /\ call[c].status = "error"
        /\ call[c].resp = <<>>

\* the resolution of an UPDATE call failed
C18_WitnessResolution ==
    \E c \in Calls :
        /\ Finished(c)
        /\ call[c].detail = "Failed to find repo"
        /\ call[c].status = "error"
        /\ call[c].resp = <<>>

ClientErrors == 400..499

\* C19: no retry on a client error. A 4xx answer is always the last answer
\* the notifier receives: the attempt that gets it returns False, without a
\* delay and without another POST.
C19_NoRetryOn4xx ==
    \A k \in DOMAIN ntf.got :
        ntf.got[k] \in ClientErrors =>
            /\ k = Len(ntf.got)
            /\ ntf.pc = "done"
            /\ ntf.result = FALSE
            /\ ntf.attempt = k - 1
            /\ Len(ntf.slept) = k - 1

\* two attempts were retried, the third got 404 and ended the call with
\* attempts to spare
C19_Witness ==
    /\ ntf.pc = "done"
    /\ ntf.max_retries = MaxRetries
    /\ ntf.got = <<500, Timeout, 404>>
    /\ ntf.slept = <<1, 2>>
    /\ ntf.result = FALSE

\* every answer the notifier got was a server error, a timeout or an exception
AllRetryable == ntf.got # <<>> /\ \A k \in DOMAIN ntf.got : Retryable(ntf.got[k])

\* C20 as stated: when every attempt ends in a server error, a timeout or an
\* exception, the notifier makes exactly max_retries POSTs, returns False, and
\* has waited one doubling delay per attempt: 1, 2, 4, 8 and 16 seconds for
\* the default of 5.
C20_Original ==
    (ntf.pc = "done" /\ AllRetryable) =>
        /\ Len(ntf.got) = ntf.max_retries
        /\ ntf.result = FALSE
        /\ ntf.slept = [k \in 1..ntf.max_retries |-> Pow2(k - 1)]

\* C20, what the loop does: max_retries POSTs, False, and one delay between
\* two attempts, none after the last: 1, 2, 4 and 8 seconds for the default
\* of 5, so that the 16 seconds of the docstring are never waited.
C20_Actual ==
    (ntf.pc = "done" /\ AllRetryable) =>
        /\ Len(ntf.got) = ntf.max_retries
        /\ ntf.result = FALSE
        /\ ntf.slept = [k \in 1..(ntf.max_retries - 1) |-> Pow2(k - 1)]

\* the default of 5 attempts, each answered by a server error: the call is
\* over after four delays
C20_Witness ==
    /\ ntf.pc = "done"
    /\ ntf.max_retries = MaxRetries
    /\ ntf.got = <<500, 500, 500, 500, 500>>
    /\ ntf.slept = <<1, 2, 4, 8>>
    /\ ntf.result = FALSE

\* the answers of a finished run, extended to a script of MaxRetries answers
GotScript == [k \in 1..MaxRetries |-> IF k <= Len(ntf.got) THEN ntf.got[k] ELSE 200]

\* C21: the notifier returns True if and only if one of its attempts got
\* status 200, and that attempt is the last one made; with an empty URL, with
\* max_retries = 0, after any other status and after exhausted retries it
\* returns False. Every run ends by returning, and the loop taken as one
\* function of the answers (as build_app uses it) gives the same result, the
\* same number of POSTs and the same delays.
C21_TrueIff200 ==
    /\ \A k \in DOMAIN ntf.got : ntf.got[k] = 200 => (k = Len(ntf.got) /\ ntf.pc = "done")
    /\ ntf.pc # "done" => ntf.result = FALSE
    /\ ntf.pc = "done" =>
          /\ ntf.result = (\E k \in DOMAIN ntf.got : ntf.got[k] = 200)
          /\ (ntf.evaluation_url = <<>> \/ ntf.max_retries = 0) =>
                 (ntf.got = <<>> /\ ntf.result = FALSE)
          /\ Len(ntf.got) <= ntf.max_retries
          /\ notify_evaluation_api_with_retry(ntf.evaluation_url, GotScript, ntf.max_retries)
                 = [ok |-> ntf.result, posts |-> Len(ntf.got), delays |-> ntf.slept]
    /\ ntf.pc = "post" => (ntf.attempt < ntf.max_retries /\ Len(ntf.got) = ntf.attempt)

\* a timeout and a server error were retried and the third attempt got 200
C21_Witness ==
    /\ ntf.pc = "done"
    /\ ntf.max_retries = MaxRetries
    /\ ntf.got = <<Timeout, 500, 200>>
    /\ ntf.result = TRUE

\* status 201 on the first attempt: the call returned False
C21_WitnessOther2xx ==
    /\ ntf.pc = "done"
    /\ ntf.got = <<201>>
    /\ ntf.result = FALSE

\* max_retries = 0 with a URL: no POST, False
C21_WitnessNoAttempt ==
    /\ ntf.pc = "done"
    /\ ntf.evaluation_url # <<>>
    /\ ntf.max_retries = 0
    /\ ntf.got = <<>>
    /\ ntf.result = FALSE

\* call c is a round-1 call with F = {index.html: content} that has returned
\* without meeting a remote fault
CreateRoundReturned(c) ==
    /\ call[c].round = 1
    /\ Len(call[c].files) = 1
    /\ call[c].files[1][1] = IndexHtml
    /\ call[c].faults = 0
    /\ call[c].ret # <<>>

\* C22 as stated: after such a call the new repository holds index.html with
\* the supplied content, README.md and LICENSE with the generated default
\* contents, and enable-hosting has been requested.
C22_Original ==
    \A c \in Calls :
        CreateRoundReturned(c) =>
            /\ tree[Repo(c)][IndexHtml] = call[c].files[1][2]
            /\ tree[Repo(c)][ReadmeMd] = DefaultReadme(Repo(c))
            /\ tree[Repo(c)][License] = LicenseText
            /\ OpsOf(c, "enable_pages") # {}

\* C22 (amended): after such a call the new repository holds index.html with
\* the supplied content and LICENSE with the generated default; README.md is
\* present with the content the repository was initialised with (auto_init),
\* the README step having found it and written nothing; enable-hosting has
\* been requested and was accepted.
C22_CreateOutcome ==
    \A c \in Calls :
        CreateRoundReturned(c) =>
            /\ \E n \in DOMAIN Stamps : Repo(c) = NewRepoName(TaskName, n)
            /\ InSeq(Repo(c), repos)
            /\ tree[Repo(c)][IndexHtml] = call[c].files[1][2]
            /\ tree[Repo(c)][License] = LicenseText
            /\ tree[Repo(c)][ReadmeMd] = AutoInitReadme(Repo(c))
            /\ tree[Repo(c)][ReadmeMd] # DefaultReadme(Repo(c))
            /\ ~HasEntry(LogOf(c), "scaffold", "create_file", ReadmeMd)
            /\ HasEntry(LogOf(c), "scaffold", "create_file", License)
            /\ \E k \in OpsOf(c, "enable_pages") : log[k].ok

\* a fault-free round-1 request with F = {index.html} has been answered
C22_Witness ==
    \E c \in Calls :
        /\ CreateRoundReturned(c)
        /\ Succeeded(c)
        /\ tree[Repo(c)][IndexHtml] = <<"c1">>
        /\ tree[Repo(c)][ReadmeMd] = AutoInitReadme(Repo(c))

ScaffoldPcs == {"readme_get", "readme_create", "license_get", "license_create"}

\* the path a scaffold step is about
ScaffoldPath(pc) == IF pc \in {"readme_get", "readme_create"} THEN ReadmeMd ELSE License

C23_WitnessRejected ==
    \E c \in Calls :
        /\ Succeeded(c)
        /\ call[c].round >= 2
        /\ ReadmeMd \notin Keys(call[c].files)
        /\ Len(PathOps(c, ReadmeMd)) = 2
        /\ PathOps(c, ReadmeMd)[2].op = "create_file" /\ ~PathOps(c, ReadmeMd)[2].ok
        /\ tree[Repo(c)][ReadmeMd] = DefaultReadme(Repo(c))

\* ------------------------------- two concurrent create_or_update_repo calls
\* the two callers, and the content each of them wants index.html to hold
Racers == {1, 2}
RaceContent(c) == IF c = 1 THEN <<"c1">> ELSE <<"c2">>

\* create_or_update_repo(task_name, files, create_new=False, repo_url) is
\* entered: the credentials are checked and the resolution is chosen
InvokeUpdate(c) ==
    /\ call[c].pc = "idle"
    /\ LET repo_url == HtmlUrl(OldRepo)
           rec == [call[c] EXCEPT !.secret_ok = TRUE, !.round = 2,
                                  !.files = <<<<IndexHtml, RaceContent(c)>>>>,
                                  !.repo_url = repo_url, !.url_given = TRUE,
                                  !.create_new = FALSE]
       IN  Goto(c, IF CredentialsMissing(envOk) THEN Raised(rec, "credentials")
                   ELSE [rec EXCEPT !.pc = Route(FALSE, repo_url)])
    /\ UNCHANGED <<envOk, now, remote, log, maxFaults, ntf>>

\* the repository holds an index.html or nothing; no request fails for a
\* reason outside the model, so every rejection is the other caller's doing
InitRace ==
    /\ envOk = TRUE
    /\ now = 0
    /\ repos = <<OldRepo>>
    /\ \E content \in {OldContent, Absent} :
          tree = [n \in RepoNames |->
                    IF n = OldRepo THEN [EmptyTree EXCEPT ![IndexHtml] = content]
                    ELSE EmptyTree]
    /\ head = [n \in RepoNames |-> IF n = OldRepo THEN <<"Initial commit">> ELSE NoCommit]
    /\ call = [c \in Calls |-> IdleCall]
    /\ log = <<>>
    /\ maxFaults = <<0>>
    /\ ntf = IdleNotifier

\* the steps of the two calls interleave at every remote request
NextRace ==
    \E c \in Racers :
        \/ InvokeUpdate(c)
        \/ GetRepo(c)
        \/ GetContents(c)
        \/ UpdateFile(c)
        \/ Refetch(c)
        \/ DeleteFile(c)
        \/ RecreateFile(c)
        \/ CreateFile(c)
        \/ ReadmeGet(c)
        \/ ReadmeCreate(c)
        \/ LicenseGet(c)
        \/ LicenseCreate(c)
        \/ GetCommits(c)
        \/ PagesBuild(c)

SpecRace == InitRace /\ [][NextRace]_vars

\* the accepted writes of content to index.html, in the order they were made
IndexWrites ==
    SelectSeq(log, LAMBDA e : /\ e.step = "files" /\ e.path = IndexHtml /\ e.ok
                              /\ e.op \in {"update_file", "create_file"})

BothReturned == \A c \in Racers : call[c].ret # <<>>

\* C24: known lost-update limitation. Two concurrent calls want different
\* content in index.html of the same repository. Whenever both of them have
\* returned a Publication Result, each has had a write of its content
\* accepted, index.html holds the content of the later writer only, and
\* neither call carries an error: the earlier write is lost and nothing
\* reports it. C24_Witness reaches such an interleaving of the token reads
\* and writes.
C24_LostUpdate ==
    BothReturned =>
        /\ \A c \in Racers :
              /\ \E k \in DOMAIN IndexWrites : IndexWrites[k].call = c
              /\ call[c].status = "none" /\ call[c].detail = "none"
        /\ tree[OldRepo][IndexHtml] = RaceContent(IndexWrites[Len(IndexWrites)].call)
        /\ \E c \in Racers : tree[OldRepo][IndexHtml] # RaceContent(c)

\* both calls read the token of the old content before either writes; the
\* first update is accepted, the second is rejected for its stale token and
\* forced through by re-read, delete and create; both return, and the first
\* caller's content is gone
C24_Witness ==
    /\ BothReturned
    /\ \E i, j, k \in DOMAIN log :
          /\ i < k /\ j < k
          /\ log[i].call = 1 /\ log[i].op = "get_contents" /\ log[i].path = IndexHtml
          /\ log[j].call = 2 /\ log[j].op = "get_contents" /\ log[j].path = IndexHtml
          /\ log[k].call = 1 /\ log[k].op = "update_file" /\ log[k].ok
          /\ \A m \in 1..(k - 1) : ~IsWrite(log[m])
    /\ Len(PathOps(1, IndexHtml)) = 2
    /\ Len(PathOps(2, IndexHtml)) = 5
    /\ PathOps(2, IndexHtml)[2].op = "update_file" /\ ~PathOps(2, IndexHtml)[2].ok
    /\ PathOps(2, IndexHtml)[4].op = "delete_file" /\ PathOps(2, IndexHtml)[4].ok
    /\ PathOps(2, IndexHtml)[5].op = "create_file" /\ PathOps(2, IndexHtml)[5].ok
    /\ tree[OldRepo][IndexHtml] = RaceContent(2)

\* the race is not always silent: when index.html does not exist yet and
\* both calls find it missing, the second create is rejected and that call
\* raises
C24_WitnessFatal ==
    \E c \in Racers :
        /\ call[c].pc = "responded" /\ call[c].status = "error"
        /\ \E d \in Racers \ {c} : call[d].ret # <<>>

\* C25: token freshness. Every update and every delete of a file carries the
\* token that the same call's latest request on that path returned, and
\* that request is a read that found the file: no write of the call lies
\* between the read and the request. The delete follows a re-read made after
\* the rejected update and carries the re-read's token; when the update was
\* rejected for a stale token, that is a different token from the one the
\* update used.
C25_TokenFresh ==
    \A c \in Racers, p \in Paths :
        LET P == PathOps(c, p) IN
        \A k \in DOMAIN P :
            P[k].op \in {"update_file", "delete_file"} =>
                /\ k > 1
                /\ P[k - 1].op = "get_contents" /\ P[k - 1].ok
                /\ P[k].tok = P[k - 1].tok
                /\ P[k].op = "delete_file" =>
                      /\ k > 2
                      /\ P[k - 2].op = "update_file" /\ ~P[k - 2].ok
                      /\ P[k - 2].tok # P[k - 1].tok => P[k].tok # P[k - 2].tok

\* an update was rejected for its stale token, and the delete that followed
\* carried the token of the other caller's content, which the re-read returned
C25_Witness ==
    \E c \in Racers, d \in Racers :
        LET P == PathOps(c, IndexHtml) IN
        /\ c # d
        /\ Len(P) >= 4
        /\ P[2].op = "update_file" /\ ~P[2].ok /\ P[2].tok = Sha(OldContent)
        /\ P[3].op = "get_contents" /\ P[3].tok = Sha(RaceContent(d))
        /\ P[4].op = "delete_file" /\ P[4].ok /\ P[4].tok = Sha(RaceContent(d))

\* the positions, in the listing by latest update, of the repositories whose
\* name starts with the task identifier
Matching(user_repos, task_name) ==
    {i \in DOMAIN user_repos : StartsWith(user_repos[i], task_name)}

\* the search request of call c, if it made one
SearchOf(c) == {k \in DOMAIN log : log[k].call = c /\ log[k].op = "get_repos"}

\* C26: search selection. On either fallback path, a search that is answered
\* and finds a match adopts the repository that is updated most recently
\* among those whose name starts with the task identifier: its name has the
\* prefix and every repository updated more recently lacks it. A search that
\* fails or finds no match adopts nothing and raises.
C26_SearchSelection ==
    \A c \in Calls : \A k \in SearchOf(c) :
        LET M == Matching(repos, TaskName) IN
        IF log[k].ok /\ M # {}
        THEN /\ \E i \in M : /\ Repo(c) = repos[i]
                             /\ \A j \in 1..(i - 1) : ~StartsWith(repos[j], TaskName)
             /\ StartsWith(Repo(c), TaskName)
        ELSE /\ Repo(c) = NoRepo
             /\ Finished(c) /\ call[c].status = "error"
             /\ call[c].detail = "Failed to find repo"

\* no repo_url: of two repositories of the task, the one updated last is
\* adopted
C26_Witness ==
    \E c \in Calls :
        /\ Succeeded(c)
        /\ ~call[c].url_given
        /\ SearchOf(c) # {}
        /\ repos = <<Quiz2Repo, OldRepo>>
        /\ Repo(c) = Quiz2Repo

\* the fetch by repo_url failed: the search skips a more recent repository
\* of another task
C26_WitnessFallback ==
    \E c \in Calls :
        /\ Succeeded(c)
        /\ HasEntry(LogOf(c), "resolve", "get_repo", "")
        /\ SearchOf(c) # {}
        /\ repos = <<BlogRepo, OldRepo>>
        /\ Repo(c) = OldRepo

\* the scaffold requests of call c on path p
ScaffoldOps(c, p) ==
    SelectSeq(log, LAMBDA e : e.call = c /\ e.step = "scaffold" /\ e.path = p)

ScaffoldDefault(repo_name, p) == IF p = ReadmeMd THEN DefaultReadme(repo_name) ELSE LicenseText

\* C27: scaffold best effort. For README.md and for LICENSE, the scaffold
\* step runs only when the path is not in F; it is one existence check,
\* followed by a create of the default content if and only if the check did
\* not find the file; it holds no update and no delete; an accepted create
\* leaves the default content, and a rejected one is absorbed: the call has
\* moved on to the next step, never raises from there, and ends by returning
\* a Publication Result.
C27_ScaffoldBestEffort ==
    \A c \in Calls : \A p \in {ReadmeMd, License} :
        LET P == ScaffoldOps(c, p)
            getPc == IF p = ReadmeMd THEN "readme_get" ELSE "license_get"
            createPc == IF p = ReadmeMd THEN "readme_create" ELSE "license_create"
        IN  P # <<>> =>
              /\ p \notin Keys(call[c].files)
              /\ Len(P) <= 2
              /\ P[1].op = "get_contents"
              /\ (Len(P) = 2 \/ call[c].pc = createPc) <=> ~P[1].ok
              /\ call[c].pc = createPc => Len(P) = 1
              /\ call[c].pc # getPc
              /\ call[c].status # "error"
              /\ Finished(c) => call[c].ret # <<>>
              /\ Len(P) = 2 =>
                    /\ P[2].op = "create_file"
                    /\ P[2].ok => tree[Repo(c)][p] = ScaffoldDefault(Repo(c), p)
                    /\ call[c].pc # createPc

\* the README.md was missing, its create failed, and the call went on to
\* the LICENSE and returned a result; README.md is still missing
C27_Witness ==
    \E c \in Calls :
        /\ Succeeded(c)
        /\ call[c].ret # <<>>
        /\ Len(ScaffoldOps(c, ReadmeMd)) = 2
        /\ ~ScaffoldOps(c, ReadmeMd)[2].ok
        /\ tree[Repo(c)][ReadmeMd] = Absent
        /\ ScaffoldOps(c, License) # <<>>

\* both defaults were missing and were created
C27_WitnessCreated ==
    \E c \in Calls :
        /\ Succeeded(c)
        /\ Len(ScaffoldOps(c, ReadmeMd)) = 2 /\ ScaffoldOps(c, ReadmeMd)[2].ok
        /\ Len(ScaffoldOps(c, License)) = 2 /\ ScaffoldOps(c, License)[2].ok
        /\ tree[Repo(c)][ReadmeMd] = DefaultReadme(Repo(c))
        /\ tree[Repo(c)][License] = LicenseText

\* ------------------------------------------------------------ termination
\* every remote request eventually returns or fails: a step that can be
\* taken is taken
SpecLive == Init /\ [][Next]_vars /\ WF_vars(Next)

\* create_or_update_repo is over for request c: it has returned or raised,
\* or build_app has answered without calling it
SyncOver(c) == call[c].pc \in {"notify", "responded"}

\* the file requests one path of F can receive, in order
FullFileOps == <<"get_contents", "update_file", "get_contents", "delete_file", "create_file">>
ShortFileOps == <<"get_contents", "create_file">>

IsPrefixOps(P, ops) == Len(P) <= Len(ops) /\ \A k \in DOMAIN P : P[k].op = ops[k]

FileOps(c, p) == SelectSeq(log, LAMBDA e : e.call = c /\ e.step = "files" /\ e.path = p)

\* the requests of call c outside the file loop
OtherOps(c) == SelectSeq(log, LAMBDA e : e.call = c /\ e.step # "files")

C28_Bounded ==
    \A c \in Calls :
        /\ \A p \in Paths :
              /\ Len(FileOps(c, p)) <= 5
              /\ IsPrefixOps(FileOps(c, p), FullFileOps) \/ IsPrefixOps(FileOps(c, p), ShortFileOps)
              /\ FileOps(c, p) # <<>> => p \in Keys(call[c].files)
        /\ \A i, j \in DOMAIN OtherOps(c) :
              (/\ OtherOps(c)[i].op = OtherOps(c)[j].op
               /\ OtherOps(c)[i].path = OtherOps(c)[j].path) => i = j
        /\ (call[c].status = "error" /\ call[c].detail = "critical file") =>
              LET L == LogOf(c) IN
              /\ L[Len(L)].step = "files" /\ L[Len(L)].path = IndexHtml /\ ~L[Len(L)].ok

\* C28: termination. Under the assumption that every remote request returns
\* or fails, create_or_update_repo is eventually over for the request, by a
\* returned Publication Result or by a raise; a path of F receives at most
\* the five file requests read, update, re-read, delete, create, in that
\* order, no other request is made twice, and a raise for the critical file
\* comes right after the request that failed.
C28_Terminates == []C28_Bounded /\ <>SyncOver(1)

\* the call has returned after a path received all five file requests
C28_Witness ==
    \E c \in Calls : \E p \in Paths :
        /\ call[c].ret # <<>>
        /\ Len(FileOps(c, p)) = 5
        /\ FileOps(c, p)[5].ok

\* the call has raised at its first fatal failure
C28_WitnessRaised ==
    \E c \in Calls :
        /\ call[c].status = "error" /\ call[c].detail = "critical file"
        /\ Len(call[c].files) = 2 /\ call[c].idx = 1

\* the content F supplies for path p
Desired(files, p) == files[CHOOSE i \in DOMAIN files : files[i][1] = p][2]

\* C29: entry-point postcondition. When create_or_update_repo has returned a
\* Publication Result for an F that contains index.html, and nothing but the
\* call has written to the repository, the remote index.html holds exactly
\* the content F supplies, whatever failed on other files, on the scaffold,
\* on the hosting requests or on the revision read.
C29_IndexPublished ==
    \A c \in Calls :
        (call[c].ret # <<>> /\ IndexHtml \in Keys(call[c].files)) =>
            /\ tree[Repo(c)][IndexHtml] = Desired(call[c].files, IndexHtml)
            /\ \E k \in DOMAIN FileOps(c, IndexHtml) :
                  /\ FileOps(c, IndexHtml)[k].ok
                  /\ FileOps(c, IndexHtml)[k].op \in {"update_file", "create_file"}

\* the call returned with index.html published although another file of F
\* failed and the revision read failed
C29_Witness ==
    \E c \in Calls : \E p \in Paths \ {IndexHtml} :
        /\ call[c].ret # <<>>
        /\ Keys(call[c].files) = {p, IndexHtml}
        /\ FileOps(c, p) # <<>>
        /\ GaveUp(FileOps(c, p), Len(FileOps(c, p)))
        /\ tree[Repo(c)][IndexHtml] = Desired(call[c].files, IndexHtml)
        /\ call[c].commit_sha = Unknown

\* C30: outcome of a failed non-critical file. For a path of F other than
\* index.html that the call's first read found, a call that has returned a
\* Publication Result leaves the path with the desired content, with the
\* content it had, or with no file; it is left with no file exactly when the
\* delete was accepted and the create after it failed, and the call has
\* returned all the same.
C30_NonCriticalOutcome ==
    \A c \in Calls : \A p \in Paths \ {IndexHtml} :
        LET P == FileOps(c, p)
            cur == tree[Repo(c)][p]
        IN  (call[c].ret # <<>> /\ P # <<>> /\ P[1].ok) =>
              /\ cur \in {Desired(call[c].files, p), Tail(P[1].tok), Absent}
              /\ cur = Absent <=> (Len(P) = 5 /\ P[4].ok /\ ~P[5].ok)
              /\ cur = Tail(P[1].tok) <=> (\A k \in DOMAIN P : IsWrite(P[k]) => ~P[k].ok)
              /\ call[c].status # "error"

\* README.md of F existed; its update was rejected, its delete accepted and
\* its create rejected: the call succeeded and README.md is gone
C30_Witness ==
    \E c \in Calls :
        LET P == FileOps(c, ReadmeMd) IN
        /\ Succeeded(c)
        /\ Len(P) = 5 /\ P[1].ok /\ P[4].ok /\ ~P[5].ok
        /\ tree[Repo(c)][ReadmeMd] = Absent

\* ... and the case where the path keeps the content it had
C30_WitnessPrior ==
    \E c \in Calls :
        LET P == FileOps(c, License) IN
        /\ Succeeded(c)
        /\ Len(P) = 3 /\ P[1].ok /\ ~P[2].ok /\ ~P[3].ok
        /\ tree[Repo(c)][License] = LicenseText

\* C31: a read failure is treated as absence. When the first read of a path
\* of F does not return the file, whether the file is missing or the read
\* failed on a file that exists, the call issues one create without token
\* on that path and nothing else: no update, no delete, no second read. A
\* rejected create is the last request on the path; for index.html the call
\* has raised right after it, for any other path the call has gone on.
C31_ReadFailureIsAbsence ==
    \A c \in Calls : \A p \in Paths :
        LET P == FileOps(c, p) IN
        (P # <<>> /\ ~P[1].ok) =>
            /\ Len(P) <= 2
            /\ Len(P) = 1 <=> (call[c].pc = "create_file" /\ CurPath(call[c]) = p)
            /\ Len(P) = 2 =>
                  /\ P[2].op = "create_file" /\ P[2].tok = <<>>
                  /\ ~P[2].ok =>
                        IF p = IndexHtml
                        THEN /\ Finished(c) /\ call[c].status = "error"
                             /\ call[c].detail = "critical file"
                             /\ LogOf(c)[Len(LogOf(c))] = P[2]
                        ELSE call[c].detail # "critical file" \/ CurPath(call[c]) # p

\* the read of an existing index.html failed; the create without token was
\* rejected because the file exists, the call raised and the file holds
\* what it held
C31_Witness ==
    \E c \in Calls :
        LET P == FileOps(c, IndexHtml) IN
        /\ Len(P) = 2 /\ ~P[1].ok /\ ~P[2].ok
        /\ call[c].faults = 1
        /\ tree[Repo(c)][IndexHtml] = OldContent
        /\ call[c].status = "error"

\* the same on another path: the call went on and returned a result
C31_WitnessOther ==
    \E c \in Calls :
        LET P == FileOps(c, License) IN
        /\ Len(P) = 2 /\ ~P[1].ok /\ ~P[2].ok
        /\ tree[Repo(c)][License] = LicenseText
        /\ Succeeded(c)

====
